---- MODULE Spec2Model ----
(***************************************************************************)
(* Model of mongo_connector/doc_managers/mappings.py: the mapping lookup   *)
(* API, the document transformer (filter, rename, value transform) and the *)
(* mapping validator.                                                      *)
(*                                                                         *)
(* Python values are modelled as follows.                                  *)
(*   - str: a TLA+ string; `x in s` on a str is the substring test.        *)
(*   - a FieldMapping dict: a record whose DOMAIN is the dict's key set.   *)
(*   - a CollectionMapping dict: [pk |-> str, fields |-> name -> record];  *)
(*     the dict's keys are "pk" and the field names, the value under "pk"  *)
(*     is a str and every other value is a FieldMapping dict.              *)
(*   - a call: a record [exc, val, ...]; exc = "none" is a normal return,  *)
(*     any other exc is the class of the exception that reaches the caller.*)
(***************************************************************************)
EXTENDS Integers, Sequences, FiniteSets, TLC

VARIABLES mappings, document, mapped_document, pc, result, log, effects

vars == <<mappings, document, mapped_document, pc, result, log, effects>>

\* Document values are the integers 0..MaxVal.
MaxVal == 1

----------------------------------------------------------------------------
(* Python helpers *)

Max(S) == CHOOSE m \in S : \A n \in S : n <= m

Min(S) == CHOOSE m \in S : \A n \in S : m <= n

\* `needle in s` for two str operands: substring test.
StrIn(needle, s) ==
    \E i \in 1..(Len(s) - Len(needle) + 1) : SubSeq(s, i, i + Len(needle) - 1) = needle

\* s.rsplit('.', 1)
RSplit1(s) ==
    LET dots == {i \in 1..Len(s) : SubSeq(s, i, i) = "."}
    IN  IF dots = {} THEN <<s>>
        ELSE <<SubSeq(s, 1, Max(dots) - 1), SubSeq(s, Max(dots) + 1, Len(s))>>

\* s.split('.', 1)
Split1(s) ==
    LET dots == {i \in 1..Len(s) : SubSeq(s, i, i) = "."}
    IN  IF dots = {} THEN <<s>>
        ELSE <<SubSeq(s, 1, Min(dots) - 1), SubSeq(s, Min(dots) + 1, Len(s))>>

\* All orders in which a finite set can be iterated.
Perms(S) ==
    {p \in [1..Cardinality(S) -> S] : \A i, j \in 1..Cardinality(S) : i # j => p[i] # p[j]}

PyInt(n) == [t |-> "int", v |-> n]

FileObject == [t |-> "file", v |-> 0]

Values == {PyInt(n) : n \in 0..MaxVal}

Raise(e) == [exc |-> e, val |-> PyInt(0)]

ARRAY_TYPE == "_ARRAY"

ARRAY_OF_SCALARS_TYPE == "_ARRAY_OF_SCALARS"

ARRAYS_TYPE == {ARRAY_TYPE, ARRAY_OF_SCALARS_TYPE}

----------------------------------------------------------------------------
(* get_transformed_value: reference transforms *)

DefaultModule == "mongo_connector.doc_managers.transforms"

\* The importable modules and their attributes: the default transforms module
\* (no user function assumed) and the standard library's operator module.
Modules ==
    (DefaultModule :> {}) @@ ("operator" :> {"neg", "add"})

\* importlib.import_module(module_path)
import_module(module_path) ==
    IF module_path = "" THEN Raise("ValueError")
    ELSE IF SubSeq(module_path, 1, 1) = "." THEN Raise("TypeError")
    ELSE IF module_path \notin DOMAIN Modules THEN Raise("ImportError")
    ELSE [exc |-> "none", val |-> module_path]

\* getattr(module, name)
getattr(module, name) ==
    IF name \in Modules[module]
    THEN [exc |-> "none", val |-> module \o "." \o name]
    ELSE Raise("AttributeError")

\* Lines 100-117: the callable a '@' transform resolves to.
\*   [exc, fn, logged]: fn = "None" when resolution failed and was logged.
ResolveReference(transform) ==
    LET transform_path == RSplit1(SubSeq(transform, 2, Len(transform)))
        module_path == IF Len(transform_path) = 2 THEN transform_path[1] ELSE DefaultModule
        name == IF Len(transform_path) = 2 THEN transform_path[2] ELSE transform_path[1]
        module == import_module(module_path)
        attr == getattr(module.val, name)
        err == IF module.exc # "none" THEN module.exc ELSE attr.exc
    IN  IF err = "none" THEN [exc |-> "none", fn |-> attr.val, logged |-> {}]
        ELSE IF err \in {"ImportError", "ValueError"}
        THEN [exc |-> "none", fn |-> "None",
              logged |-> {"Impossible to use transform function"}]
        ELSE [exc |-> err, fn |-> "None", logged |-> {}]

----------------------------------------------------------------------------
(* get_transformed_value: expression transforms *)

\* RestrictedPython.Guards.safe_builtins, by name.
safe_builtins == {"abs", "len", "str", "int"}

\* The interpreter's own builtins module, by name.
builtins == safe_builtins \cup {"open", "eval", "__import__"}

\* Lines 122-124.
restricted_globals == "__builtin__" :> safe_builtins

\* exec(code, globals, locals): the builtins the executed code sees are
\* globals['__builtins__']; when that key is missing the interpreter inserts
\* a reference to its own builtins module.
ExecBuiltins(globals) ==
    IF "__builtins__" \in DOMAIN globals THEN globals["__builtins__"] ELSE builtins

\* The expressions of the model: whether 'transform = lambda val: <expr>' is
\* syntactically valid, the global names the expression reads, what it does.
Expressions ==
    [src : {"val * 2"}, syntax : {TRUE}, names : {{}}, body : {"mul2"}] \cup
    [src : {"val + 1"}, syntax : {TRUE}, names : {{}}, body : {"add1"}] \cup
    [src : {"val +"}, syntax : {FALSE}, names : {{}}, body : {"none"}] \cup
    [src : {"1 / 0"}, syntax : {TRUE}, names : {{}}, body : {"div0"}] \cup
    [src : {"abs(val)"}, syntax : {TRUE}, names : {{"abs"}}, body : {"abs"}] \cup
    [src : {"open('f', 'w')"}, syntax : {TRUE}, names : {{"open"}}, body : {"open_w"}] \cup
    [src : {"__import__('os')"}, syntax : {TRUE}, names : {{"__import__"}}, body : {"import_os"}]

Parse(src) == CHOOSE e \in Expressions : e.src = src

\* compile_restricted(src, '<string>', 'exec'): a syntax error, or a name that
\* starts with an underscore, is rejected at compile time.
compile_restricted(src) ==
    LET e == Parse(src)
    IN  IF ~e.syntax \/ \E n \in e.names : SubSeq(n, 1, 1) = "_"
        THEN Raise("SyntaxError")
        ELSE [exc |-> "none", val |-> src]

\* Lines 120-140: the callable an expression transform compiles to.
CompileExpression(transform) ==
    LET code == compile_restricted(transform)
    IN  IF code.exc = "none"
        THEN [exc |-> "none", fn |-> "lambda " \o transform, logged |-> {}]
        ELSE [exc |-> "none", fn |-> "None",
              logged |-> {"Impossible to use transform code"}]

----------------------------------------------------------------------------
(* get_transformed_value: calling the transform *)

\* What a call of an expression's lambda does with the given globals.
CallLambda(e, globals, val) ==
    IF \E n \in e.names : n \notin (DOMAIN globals \cup ExecBuiltins(globals))
    THEN [exc |-> "NameError", val |-> val, did |-> {}]
    ELSE CASE e.body = "mul2" ->
                IF val.t = "int" THEN [exc |-> "none", val |-> PyInt(val.v * 2), did |-> {}]
                ELSE [exc |-> "TypeError", val |-> val, did |-> {}]
           [] e.body = "add1" ->
                IF val.t = "int" THEN [exc |-> "none", val |-> PyInt(val.v + 1), did |-> {}]
                ELSE [exc |-> "TypeError", val |-> val, did |-> {}]
           [] e.body = "abs" ->
                IF val.t = "int"
                THEN [exc |-> "none", val |-> PyInt(IF val.v < 0 THEN 0 - val.v ELSE val.v),
                      did |-> {}]
                ELSE [exc |-> "TypeError", val |-> val, did |-> {}]
           [] e.body = "div0" -> [exc |-> "ZeroDivisionError", val |-> val, did |-> {}]
           [] e.body = "open_w" ->
                [exc |-> "none", val |-> FileObject, did |-> {"filesystem"}]
           [] OTHER -> [exc |-> "TypeError", val |-> val, did |-> {}]

\* transform(val), line 144.
CallTransform(fn, val) ==
    IF fn = "operator.neg"
    THEN IF val.t = "int" THEN [exc |-> "none", val |-> PyInt(0 - val.v), did |-> {}]
         ELSE [exc |-> "TypeError", val |-> val, did |-> {}]
    ELSE IF fn = "operator.add"
    THEN [exc |-> "TypeError", val |-> val, did |-> {}]
    ELSE CallLambda(Parse(SubSeq(fn, 8, Len(fn))), restricted_globals, val)

\* get_transformed_value(mapped_field, mapped_document, key)
\*   [exc, val, logged, did, replaced]: logged are the messages sent to
\*   LOG.error, did the capabilities the transform exercised, replaced tells
\*   whether line 154 assigned the transform's result.
get_transformed_value(mapped_field, doc, key) ==
    LET val == doc[key]
        none == [exc |-> "none", val |-> val, logged |-> {}, did |-> {}, replaced |-> FALSE]
    IN  IF "transform" \notin DOMAIN mapped_field THEN none
        ELSE LET transform == mapped_field.transform
             IN  IF Len(transform) = 0 THEN [none EXCEPT !.exc = "IndexError"]
                 ELSE LET fn == IF SubSeq(transform, 1, 1) = "@"
                                THEN ResolveReference(transform)
                                ELSE CompileExpression(transform)
                      IN  IF fn.exc # "none" THEN [none EXCEPT !.exc = fn.exc]
                          ELSE IF fn.fn = "None" THEN [none EXCEPT !.logged = fn.logged]
                          ELSE LET new_val == CallTransform(fn.fn, val)
                               IN  IF new_val.exc # "none"
                                   THEN [none EXCEPT
                                           !.logged = {"An error occured during field transformation"},
                                           !.did = new_val.did]
                                   ELSE [none EXCEPT !.val = new_val.val,
                                                     !.did = new_val.did,
                                                     !.replaced = TRUE]

----------------------------------------------------------------------------
(* Mapping configuration *)

\* The keys of a CollectionMapping dict.
Keys(mapping) == {"pk"} \cup DOMAIN mapping.fields

\* utils.db_and_collection(namespace)
db_and_collection(namespace) == Split1(namespace)

\* `db in mappings and coll in mappings[db]`
HasCollection(config, db, coll) ==
    db \in DOMAIN config /\ coll \in DOMAIN config[db]

----------------------------------------------------------------------------
(* Document transformer *)

RECURSIVE JoinPath(_)
JoinPath(p) == IF Len(p) = 1 THEN p[1] ELSE p[1] \o "." \o JoinPath(Tail(p))

\* DocumentFlattener.format_document(doc): a nested document, given as its
\* leaves (path -> value), becomes dot-separated path -> value.
format_document(doc) ==
    [k \in {JoinPath(p) : p \in DOMAIN doc} |->
        doc[CHOOSE p \in DOMAIN doc : JoinPath(p) = k]]

\* _clean_and_flatten_doc(mappings, doc, namespace)
clean_and_flatten_doc(config, doc, namespace) ==
    LET flat_doc == format_document(doc)
        db == db_and_collection(namespace)[1]
        coll == db_and_collection(namespace)[2]
    IN  IF db \in DOMAIN config /\ coll \in DOMAIN config[db]
        THEN [k \in {f \in DOMAIN flat_doc : f \in Keys(config[db][coll])} |-> flat_doc[k]]
        ELSE <<>>

\* d[new] = d.pop(old)
PopInto(d, old, new) ==
    [k \in (DOMAIN d \ {old}) \cup {new} |-> IF k = new THEN d[old] ELSE d[k]]

\* Lines 73-78: the rename loop over `keys`, from position i.
RECURSIVE RenameLoop(_, _, _, _)
RenameLoop(mapping, d, keys, i) ==
    IF i > Len(keys) THEN [exc |-> "none", val |-> d]
    ELSE LET key == keys[i]
         IN  IF key = "pk"
             THEN IF StrIn("dest", mapping.pk)
                  THEN [exc |-> "TypeError", val |-> <<>>]
                  ELSE RenameLoop(mapping, d, keys, i + 1)
             ELSE IF "dest" \in DOMAIN mapping.fields[key]
                  THEN RenameLoop(mapping, PopInto(d, key, mapping.fields[key].dest),
                                  keys, i + 1)
                  ELSE RenameLoop(mapping, d, keys, i + 1)

\* get_mapped_document(mappings, document, namespace): the outcomes over the
\* orders in which the cleaned document's keys can be listed.
get_mapped_document(config, doc, namespace) ==
    LET cleaned == clean_and_flatten_doc(config, doc, namespace)
        db == db_and_collection(namespace)[1]
        coll == db_and_collection(namespace)[2]
    IN  IF DOMAIN cleaned = {} THEN {[exc |-> "none", val |-> cleaned]}
        ELSE {RenameLoop(config[db][coll], cleaned, keys, 1) : keys \in Perms(DOMAIN cleaned)}

\* Lines 160-167: the candidates of the mapped_fields comprehension, by dest.
ScalarDestFields(mapping) ==
    {f \in DOMAIN mapping.fields :
        /\ "dest" \in DOMAIN mapping.fields[f]
        /\ mapping.fields[f].type \notin ARRAYS_TYPE}

\* Lines 160-167: mapped_fields, dest -> FieldMapping; of several fields with
\* one dest the comprehension keeps the one iterated last.
MappedFields(mapping) ==
    LET dests == {mapping.fields[f].dest : f \in ScalarDestFields(mapping)}
    IN  {[d \in dests |-> mapping.fields[pick[d]]] :
            pick \in {p \in [dests -> ScalarDestFields(mapping)] :
                        \A d \in dests : mapping.fields[p[d]].dest = d}}

\* Lines 171-177 for one choice of mapped_fields: the keys of mapped_document
\* are visited in the dict's order; a transform that raises ends the call
\* after the keys visited before it.
TransformAll(mapped_fields, doc) ==
    LET one(k) == IF k \in DOMAIN mapped_fields
                  THEN get_transformed_value(mapped_fields[k], doc, k)
                  ELSE [exc |-> "none", val |-> doc[k], logged |-> {}, did |-> {},
                        replaced |-> FALSE]
        raising == {k \in DOMAIN doc : one(k).exc # "none"}
        quiet == DOMAIN doc \ raising
        said(K) == UNION {one(k).logged : k \in K}
        done(K) == UNION {one(k).did : k \in K}
    IN  IF raising = {}
        THEN {[exc |-> "none", val |-> [k \in DOMAIN doc |-> one(k).val],
               logged |-> said(quiet), did |-> done(quiet)]}
        ELSE {[exc |-> one(k).exc, val |-> <<>>, logged |-> said(before),
               did |-> done(before)] : k \in raising, before \in SUBSET quiet}

\* get_transformed_document(mappings, db, collection, mapped_document)
get_transformed_document(config, db, coll, doc) ==
    IF ~HasCollection(config, db, coll)
    THEN {[exc |-> "KeyError", val |-> <<>>, logged |-> {}, did |-> {}]}
    ELSE IF StrIn("dest", config[db][coll].pk)
    THEN {[exc |-> "TypeError", val |-> <<>>, logged |-> {}, did |-> {}]}
    ELSE UNION {TransformAll(mf, doc) : mf \in MappedFields(config[db][coll])}

----------------------------------------------------------------------------
(* Lookup API *)

\* get_primary_key(mappings, namespace)
get_primary_key(config, namespace) ==
    LET db == db_and_collection(namespace)[1]
        coll == db_and_collection(namespace)[2]
    IN  IF ~HasCollection(config, db, coll) THEN [exc |-> "KeyError", val |-> ""]
        ELSE [exc |-> "none", val |-> config[db][coll].pk]

\* get_mapped_field(mappings, namespace, field_name)
get_mapped_field(config, namespace, field_name) ==
    LET db == db_and_collection(namespace)[1]
        coll == db_and_collection(namespace)[2]
    IN  IF ~HasCollection(config, db, coll) THEN [exc |-> "KeyError", val |-> ""]
        ELSE IF field_name \notin Keys(config[db][coll]) THEN [exc |-> "KeyError", val |-> ""]
        ELSE IF field_name = "pk" THEN [exc |-> "TypeError", val |-> ""]
        ELSE IF "dest" \notin DOMAIN config[db][coll].fields[field_name]
        THEN [exc |-> "KeyError", val |-> ""]
        ELSE [exc |-> "none", val |-> config[db][coll].fields[field_name].dest]

\* is_mapped(mappings, namespace, field_name=None); field_name is <<>> for
\* None and <<name>> for a name.
is_mapped(config, namespace, field_name) ==
    LET db == db_and_collection(namespace)[1]
        coll == db_and_collection(namespace)[2]
    IN  [exc |-> "none",
         val |-> /\ db \in DOMAIN config
                 /\ coll \in DOMAIN config[db]
                 /\ (field_name = <<>> \/ field_name[1] \in Keys(config[db][coll]))]

\* is_id_autogenerated(mappings, namespace)
is_id_autogenerated(config, namespace) ==
    LET primary_key == get_primary_key(config, namespace)
        db == db_and_collection(namespace)[1]
        coll == db_and_collection(namespace)[2]
        mapped_to_primary_key ==
            {k \in DOMAIN config[db][coll].fields :
                /\ "dest" \in DOMAIN config[db][coll].fields[k]
                /\ config[db][coll].fields[k].dest = primary_key.val}
    IN  IF primary_key.exc # "none" THEN [exc |-> primary_key.exc, val |-> FALSE]
        ELSE IF StrIn("dest", config[db][coll].pk) THEN [exc |-> "TypeError", val |-> FALSE]
        ELSE [exc |-> "none", val |-> Cardinality(mapped_to_primary_key) = 0]

\* get_scalar_array_fields without the guard of lines 196-197: the lookup of
\* an absent namespace raises, as in get_primary_key.
get_scalar_array_fields_unguarded(config, db, coll) ==
    IF db \notin DOMAIN config \/ coll \notin DOMAIN config[db]
    THEN {[exc |-> "KeyError", val |-> <<>>]}
    ELSE IF StrIn("type", config[db][coll].pk)
    THEN {[exc |-> "TypeError", val |-> <<>>]}
    ELSE {[exc |-> "none", val |-> order] :
            order \in Perms({k \in DOMAIN config[db][coll].fields :
                               /\ "type" \in DOMAIN config[db][coll].fields[k]
                               /\ config[db][coll].fields[k].type = ARRAY_OF_SCALARS_TYPE})}

\* get_scalar_array_fields(mappings, db, collection): the outcomes over the
\* orders in which the collection mapping can be iterated.
get_scalar_array_fields(config, db, coll) ==
    IF db \notin DOMAIN config \/ coll \notin DOMAIN config[db]
    THEN {[exc |-> "none", val |-> <<>>]}
    ELSE IF StrIn("type", config[db][coll].pk)
    THEN {[exc |-> "TypeError", val |-> <<>>]}
    ELSE {[exc |-> "none", val |-> order] :
            order \in Perms({k \in DOMAIN config[db][coll].fields :
                               /\ "type" \in DOMAIN config[db][coll].fields[k]
                               /\ config[db][coll].fields[k].type = ARRAY_OF_SCALARS_TYPE})}

----------------------------------------------------------------------------
(* Configuration validator *)

\* jsonschema.validate(mappings, MAPPING_SCHEMA): every field has a type, an
\* array or array-of-scalars field a dest and an fk, an array-of-scalars field
\* a valueField; pk is a string.
SchemaValid(config) ==
    \A db \in DOMAIN config : \A coll \in DOMAIN config[db] :
        \A f \in DOMAIN config[db][coll].fields :
            LET field == config[db][coll].fields[f]
            IN  /\ "type" \in DOMAIN field
                /\ field.type \in ARRAYS_TYPE => {"dest", "fk"} \subseteq DOMAIN field
                /\ field.type = ARRAY_OF_SCALARS_TYPE => "valueField" \in DOMAIN field
                /\ field.type \notin ARRAYS_TYPE =>
                      DOMAIN field \subseteq {"type", "dest", "transform"}

\* Lines 228-236: linked_collection has a link to collection.
HasLink(dbmapping, linked_collection, collection) ==
    \E field \in Keys(dbmapping[linked_collection]) :
        /\ field # "pk"
        /\ dbmapping[linked_collection].fields[field].type \in ARRAYS_TYPE
        /\ dbmapping[linked_collection].fields[field].dest = collection

\* Lines 223-247: the primary-key check of one collection.
CheckPrimaryKey(dbmapping, collection) ==
    IF dbmapping[collection].pk \notin Keys(dbmapping[collection])
       /\ ~\E linked_collection \in DOMAIN dbmapping :
              /\ linked_collection # collection
              /\ HasLink(dbmapping, linked_collection, collection)
    THEN "InvalidConfiguration"
    ELSE "none"

\* mapping[name]['type'] where mapping[name] may be the str under 'pk'.
TypeOf(mapping, name) ==
    IF name = "pk" THEN [exc |-> "TypeError", val |-> ""]
    ELSE [exc |-> "none", val |-> mapping.fields[name].type]

\* Lines 250-304: the checks of one field of one collection.
CheckField(dbmapping, collection, fieldname) ==
    LET mapping == dbmapping[collection]
        field == mapping.fields[fieldname]
        fk == TypeOf(dbmapping[field.dest], field.fk)
        pk == IF mapping.pk \in Keys(mapping) THEN TypeOf(mapping, mapping.pk)
              ELSE [exc |-> "none", val |-> "SERIAL"]
    IN  IF fieldname = "pk" \/ field.type \notin ARRAYS_TYPE THEN "none"
        ELSE IF field.dest \notin DOMAIN dbmapping THEN "InvalidConfiguration"
        ELSE IF field.fk \notin Keys(dbmapping[field.dest]) THEN "InvalidConfiguration"
        ELSE IF fk.exc # "none" THEN fk.exc
        ELSE IF pk.exc # "none" THEN pk.exc
        ELSE IF fk.val # pk.val THEN "InvalidConfiguration"
        ELSE IF field.type = ARRAY_OF_SCALARS_TYPE
                /\ field.valueField \notin Keys(dbmapping[field.dest])
        THEN "InvalidConfiguration"
        ELSE "none"

\* Lines 220-304 for one collection: the errors the loop body can end with.
\* The primary-key check comes first; the fields are then visited in the
\* dict's order, so any failing field can be the one that ends the call.
CheckCollection(dbmapping, collection) ==
    IF CheckPrimaryKey(dbmapping, collection) # "none"
    THEN {CheckPrimaryKey(dbmapping, collection)}
    ELSE {CheckField(dbmapping, collection, f) :
            f \in {g \in DOMAIN dbmapping[collection].fields :
                     CheckField(dbmapping, collection, g) # "none"}}

\* validate_mapping(mappings): the exceptions the call can end with ("none":
\* it returns). Databases and collections are visited in the dicts' order, so
\* any failing collection can be the first one visited.
validate_mapping(config) ==
    IF ~SchemaValid(config) THEN {"InvalidConfiguration"}
    ELSE LET errors == UNION {UNION {CheckCollection(config[db], coll) :
                                       coll \in DOMAIN config[db]} : db \in DOMAIN config}
         IN  IF errors = {} THEN {"none"} ELSE errors

----------------------------------------------------------------------------
(* Inputs *)

Absent == [absent |-> TRUE]

\* The dict with the keys whose option is not Absent.
Present(opt) == [n \in {m \in DOMAIN opt : opt[m] # Absent} |-> opt[n]]

Namespaces == {"db.A", "db.B", "db.Z", "nodb.A"}

NoResult == [op |-> "none", ns |-> "", exc |-> "none", val |-> <<>>]

\* Transform strings: reference form, expression form, and the empty string.
Transforms ==
    {"@neg", "@operator.neg", "@operator.add", "@operator.nope", "@nomod.f",
     "@.f", "@..f", "@", ""} \cup {e.src : e \in Expressions}

\* Inputs of get_transformed_value: one scalar field, with or without a
\* transform, and a mapped document holding its destination key.
ValueFields ==
    [type : {"INT"}, dest : {"x"}] \cup
    [type : {"INT"}, dest : {"x"}, transform : Transforms]

ValueDocs ==
    {Present(opt) : opt \in [{"x", "y"} -> Values \cup {Absent}]} \ {<<>>}

\* Inputs of the document transformer: one collection db.A with up to two
\* fields, and a nested document.
DocFields ==
    [type : {"INT"}] \cup
    [type : {"INT"}, transform : {"val * 2"}] \cup
    [type : {"INT"}, dest : {"x", "b.c"}] \cup
    [type : {"INT"}, dest : {"x", "b.c"}, transform : {"val * 2", "val + 1"}] \cup
    [type : {ARRAY_TYPE}, dest : {"B"}, fk : {"a_id"}] \cup
    [type : {ARRAY_OF_SCALARS_TYPE}, dest : {"B"}, fk : {"a_id"}, valueField : {"v"}]

DocConfigs ==
    {"db" :> ("A" :> [pk |-> pk, fields |-> Present(opt)]) :
        pk \in {"x", "dest_id", "type_id"},
        opt \in [{"a", "b.c"} -> DocFields \cup {Absent}]}

DocPaths == {<<"a">>, <<"b", "c">>, <<"pk">>, <<"z">>}

Docs == {Present(opt) : opt \in [DocPaths -> Values \cup {Absent}]}

\* Inputs of the validator: a database with collection A and, possibly,
\* collection B, each with up to three fields.
IdFields == [type : {"INT"}] \cup [type : {"INT"}, dest : {"id"}]

ValueColumns == [type : {"INT", "SERIAL"}]

ArrayFields ==
    [type : {ARRAY_TYPE}, dest : {"A", "B"}, fk : {"v", "pk"}] \cup
    [type : {ARRAY_OF_SCALARS_TYPE}, dest : {"A", "B"}, fk : {"v"},
     valueField : {"id", "pk"}] \cup
    [type : {ARRAY_TYPE}, dest : {"B"}]

Collections ==
    {[pk |-> pk, fields |-> Present(opt)] :
        pk \in {"id", "pk", "dest_type"},
        opt \in {o \in [{"id", "v", "arr"} ->
                          IdFields \cup ValueColumns \cup ArrayFields \cup {Absent}] :
                    /\ o["id"] \in IdFields \cup {Absent}
                    /\ o["v"] \in ValueColumns \cup {Absent}
                    /\ o["arr"] \in ArrayFields \cup {Absent}}}

ValidateConfigs ==
    {"db" :> ("A" :> a) : a \in Collections} \cup
    {"db" :> ("A" :> a @@ "B" :> b) : a \in Collections, b \in Collections}

----------------------------------------------------------------------------
(* Operations *)

Finish(op, ns, out) ==
    /\ result' = [op |-> op, ns |-> ns, exc |-> out.exc, val |-> out.val]
    /\ pc' = "done"
    /\ UNCHANGED <<mappings, document, mapped_document, log, effects>>

GetMappedDocument ==
    /\ pc = "start"
    /\ \E ns \in Namespaces : \E out \in get_mapped_document(mappings, document, ns) :
          /\ result' = [op |-> "get_mapped_document", ns |-> ns, exc |-> out.exc,
                        val |-> out.val]
          /\ mapped_document' = out.val
          /\ pc' = IF out.exc = "none" THEN "mapped" ELSE "done"
    /\ UNCHANGED <<mappings, document, log, effects>>

GetTransformedDocument ==
    /\ pc = "mapped"
    /\ \E out \in get_transformed_document(mappings, db_and_collection(result.ns)[1],
                                           db_and_collection(result.ns)[2],
                                           mapped_document) :
          /\ result' = [op |-> "get_transformed_document", ns |-> result.ns,
                        exc |-> out.exc, val |-> out.val]
          /\ log' = log \cup out.logged
          /\ effects' = effects \cup out.did
    /\ pc' = "done"
    /\ UNCHANGED <<mappings, document, mapped_document>>

GetTransformedValue ==
    /\ pc = "value"
    /\ \E key \in DOMAIN mapped_document :
          LET out == get_transformed_value(mappings["db"]["A"].fields["x"],
                                           mapped_document, key)
          IN  /\ result' = [op |-> "get_transformed_value", ns |-> key, exc |-> out.exc,
                            val |-> out.val, replaced |-> out.replaced]
              /\ log' = log \cup out.logged
              /\ effects' = effects \cup out.did
    /\ pc' = "done"
    /\ UNCHANGED <<mappings, document, mapped_document>>

GetPrimaryKey ==
    /\ pc = "start"
    /\ \E ns \in Namespaces : Finish("get_primary_key", ns, get_primary_key(mappings, ns))

GetMappedField ==
    /\ pc = "start"
    /\ \E ns \in Namespaces, field_name \in {"a", "b.c", "zz", "pk"} :
          /\ result' = [op |-> "get_mapped_field", ns |-> ns, field |-> <<field_name>>,
                        exc |-> get_mapped_field(mappings, ns, field_name).exc,
                        val |-> get_mapped_field(mappings, ns, field_name).val]
          /\ pc' = "done"
    /\ UNCHANGED <<mappings, document, mapped_document, log, effects>>

IsMapped ==
    /\ pc = "start"
    /\ \E ns \in Namespaces, field_name \in {<<>>, <<"a">>, <<"b.c">>, <<"zz">>, <<"pk">>} :
          /\ result' = [op |-> "is_mapped", ns |-> ns, field |-> field_name,
                        exc |-> is_mapped(mappings, ns, field_name).exc,
                        val |-> is_mapped(mappings, ns, field_name).val]
          /\ pc' = "done"
    /\ UNCHANGED <<mappings, document, mapped_document, log, effects>>

IsIdAutogenerated ==
    /\ pc = "start"
    /\ \E ns \in Namespaces :
          Finish("is_id_autogenerated", ns, is_id_autogenerated(mappings, ns))

GetScalarArrayFields ==
    /\ pc = "start"
    /\ \E ns \in Namespaces :
          \E out \in get_scalar_array_fields(mappings, db_and_collection(ns)[1],
                                             db_and_collection(ns)[2]) :
              Finish("get_scalar_array_fields", ns, out)

ValidateMapping ==
    /\ pc = "start"
    /\ \E exc \in validate_mapping(mappings) :
          Finish("validate_mapping", "", [exc |-> exc, val |-> <<>>])

----------------------------------------------------------------------------
(* Specifications *)

\* get_transformed_value on every transform string.
InitValue ==
    /\ mappings \in {"db" :> ("A" :> [pk |-> "x", fields |-> ("x" :> f)]) : f \in ValueFields}
    /\ document = <<>>
    /\ mapped_document \in ValueDocs
    /\ pc = "value"
    /\ result = NoResult
    /\ log = {}
    /\ effects = {}

NextValue == GetTransformedValue

SpecValue == InitValue /\ [][NextValue]_vars

\* The document transformer: get_mapped_document, then get_transformed_document.
InitDoc ==
    /\ mappings \in DocConfigs
    /\ document \in Docs
    /\ mapped_document = <<>>
    /\ pc = "start"
    /\ result = NoResult
    /\ log = {}
    /\ effects = {}

NextDoc == GetMappedDocument \/ GetTransformedDocument

SpecDoc == InitDoc /\ [][NextDoc]_vars

\* The lookup API.
InitLookup ==
    /\ mappings \in DocConfigs
    /\ document = <<>>
    /\ mapped_document = <<>>
    /\ pc = "start"
    /\ result = NoResult
    /\ log = {}
    /\ effects = {}

NextLookup ==
    \/ GetPrimaryKey
    \/ GetMappedField
    \/ IsMapped
    \/ IsIdAutogenerated
    \/ GetScalarArrayFields

SpecLookup == InitLookup /\ [][NextLookup]_vars

\* The validator, and the operations that iterate a collection mapping.
InitValidate ==
    /\ mappings \in ValidateConfigs
    /\ document = (<<"id">> :> PyInt(0))
    /\ mapped_document = <<>>
    /\ pc = "start"
    /\ result = NoResult
    /\ log = {}
    /\ effects = {}

NextValidate ==
    \/ ValidateMapping
    \/ IsIdAutogenerated
    \/ GetScalarArrayFields
    \/ GetMappedDocument
    \/ GetTransformedDocument

SpecValidate == InitValidate /\ [][NextValidate]_vars

----------------------------------------------------------------------------
(* Vocabulary of the properties *)

DbOf(ns) == db_and_collection(ns)[1]

CollOf(ns) == db_and_collection(ns)[2]

IsMappedNs(ns) == HasCollection(mappings, DbOf(ns), CollOf(ns))

MappingOf(ns) == mappings[DbOf(ns)][CollOf(ns)]

\* The field mappings of a collection: the entries other than pk.
FieldsOf(mapping) == DOMAIN mapping.fields

\* The name a field is written under: its dest, or its own name.
OutName(mapping, f) ==
    IF "dest" \in DOMAIN mapping.fields[f] THEN mapping.fields[f].dest ELSE f

\* No two fields of the collection are written under one name.
UniqueDests(mapping) ==
    \A f, g \in FieldsOf(mapping) : f # g => OutName(mapping, f) # OutName(mapping, g)

\* The fields of the collection that the flattened document holds.
Retained(mapping, doc) == FieldsOf(mapping) \cap DOMAIN format_document(doc)

\* The expressions that reach for a capability outside the safe vocabulary.
Forbidden == {e.src : e \in {x \in Expressions : x.names \ safe_builtins # {}}}

\* The transform of the one field under test in SpecValue.
FieldUnderTest == mappings["db"]["A"].fields["x"]

HasTransform == "transform" \in DOMAIN FieldUnderTest

IsReference ==
    /\ HasTransform
    /\ Len(FieldUnderTest.transform) > 0
    /\ SubSeq(FieldUnderTest.transform, 1, 1) = "@"

\* The reference names a module that cannot be imported or a name the module
\* does not have.
Unresolvable ==
    /\ IsReference
    /\ LET r == ResolveReference(FieldUnderTest.transform)
       IN  r.exc # "none" \/ r.fn = "None"

----------------------------------------------------------------------------
(* Properties of get_transformed_value *)

\* C1: get_transformed_value never raises to its caller, whatever the
\* transform string is; when a reference transform names a module or a
\* function that cannot be resolved, the error is logged and the original
\* value is returned unchanged.
C1_NeverRaises ==
    result.op = "get_transformed_value" =>
        /\ result.exc = "none"
        /\ Unresolvable =>
              /\ log # {}
              /\ result.val = mapped_document[result.ns]

\* C8: an expression transform that reaches for a forbidden capability never
\* produces a replacement value and never exercises the capability: an error
\* is logged and the original value is returned.
C8_ForbiddenFailsClosed ==
    (/\ result.op = "get_transformed_value"
     /\ HasTransform
     /\ FieldUnderTest.transform \in Forbidden) =>
        /\ result.exc = "none"
        /\ ~result.replaced
        /\ result.val = mapped_document[result.ns]
        /\ effects = {}
        /\ log # {}

----------------------------------------------------------------------------
(* Properties of the document transformer *)

\* C2: for a mapped namespace whose destination names are unique, the key set
\* of the record get_mapped_document returns is exactly the set of dest names
\* (or own names where dest is absent) of the fields of the collection that
\* the flattened document holds; the pk entry is not a field.
C2_KeySet ==
    (/\ result.op = "get_mapped_document"
     /\ IsMappedNs(result.ns)
     /\ UniqueDests(MappingOf(result.ns))) =>
        /\ result.exc = "none"
        /\ DOMAIN result.val =
              {OutName(MappingOf(result.ns), f) : f \in Retained(MappingOf(result.ns), document)}

\* C3: for a namespace with no mapping entry the whole pipeline (filter,
\* rename, value transform) returns an empty record and does not fail.
C3_UnmappedEmpty ==
    (/\ result.op \in {"get_mapped_document", "get_transformed_document"}
     /\ ~IsMappedNs(result.ns)) =>
        /\ result.exc = "none"
        /\ result.val = <<>>

\* The value the claim expects for field f: its own transform applied to its
\* flattened value when it is a non-array field with a dest, its flattened
\* value otherwise.
ExpectedValue(mapping, f, doc) ==
    IF "dest" \in DOMAIN mapping.fields[f] /\ mapping.fields[f].type \notin ARRAYS_TYPE
    THEN get_transformed_value(mapping.fields[f], format_document(doc), f).val
    ELSE format_document(doc)[f]

\* C9: end to end, for a mapped namespace with unique destination names, every
\* retained field appears under its output name with the value obtained from
\* its own flattened value and its own transform (untouched for a field with
\* no dest and for an array field), whatever the iteration order.
C9_EndToEnd ==
    (/\ result.op = "get_transformed_document"
     /\ IsMappedNs(result.ns)
     /\ UniqueDests(MappingOf(result.ns))) =>
        /\ result.exc = "none"
        /\ \A f \in Retained(MappingOf(result.ns), document) :
              /\ OutName(MappingOf(result.ns), f) \in DOMAIN result.val
              /\ result.val[OutName(MappingOf(result.ns), f)] =
                    ExpectedValue(MappingOf(result.ns), f, document)

----------------------------------------------------------------------------
(* Properties of the validator *)

\* (i) some field of the collection is mapped with a dest equal to its pk.
PkIsDestOfField(mapping) ==
    \E f \in FieldsOf(mapping) :
        "dest" \in DOMAIN mapping.fields[f] /\ mapping.fields[f].dest = mapping.pk

\* (ii) another collection of the database has an array-typed field whose
\* dest is this collection.
LinkedFromOther(dbmapping, coll) ==
    \E other \in DOMAIN dbmapping \ {coll} : \E f \in FieldsOf(dbmapping[other]) :
        /\ dbmapping[other].fields[f].type \in ARRAYS_TYPE
        /\ "dest" \in DOMAIN dbmapping[other].fields[f]
        /\ dbmapping[other].fields[f].dest = coll

\* C4: validate_mapping fails for every config that contains a collection for
\* which neither (i) some field is mapped with a dest equal to the pk value
\* nor (ii) another collection of the database links to it by an array field.
C4_FailsWithoutIdentity ==
    (/\ result.op = "validate_mapping"
     /\ \E db \in DOMAIN mappings : \E coll \in DOMAIN mappings[db] :
           /\ ~PkIsDestOfField(mappings[db][coll])
           /\ ~LinkedFromOther(mappings[db], coll)) =>
        result.exc # "none"

\* The type of the collection's resolved primary key: the type of the field
\* the pk names, SERIAL when the pk has no field mapping.
ResolvedPkType(mapping) ==
    IF mapping.pk \in FieldsOf(mapping) THEN mapping.fields[mapping.pk].type ELSE "SERIAL"

\* Checks 3a-3d on one array or array-of-scalars field; the pk entry of the
\* destination collection is not a field.
ArrayFieldSound(dbmapping, coll, f) ==
    LET field == dbmapping[coll].fields[f]
    IN  /\ field.dest \in DOMAIN dbmapping
        /\ field.fk \in FieldsOf(dbmapping[field.dest])
        /\ dbmapping[field.dest].fields[field.fk].type = ResolvedPkType(dbmapping[coll])
        /\ field.type = ARRAY_OF_SCALARS_TYPE =>
              field.valueField \in FieldsOf(dbmapping[field.dest])

ArrayFieldsOf(mapping) == {f \in FieldsOf(mapping) : mapping.fields[f].type \in ARRAYS_TYPE}

\* C5: for every schema-conformant config with an array or array-of-scalars
\* field that breaks one of the checks 3a-3d, validate_mapping ends with
\* InvalidConfiguration and with no other kind of error.
C5_FailsWithInvalidConfiguration ==
    (/\ result.op = "validate_mapping"
     /\ SchemaValid(mappings)
     /\ \E db \in DOMAIN mappings : \E coll \in DOMAIN mappings[db] :
           \E f \in ArrayFieldsOf(mappings[db][coll]) :
               ~ArrayFieldSound(mappings[db], coll, f)) =>
        result.exc = "InvalidConfiguration"

\* The pk names a field of the collection, or an array-typed field of another
\* collection of the database supplies it.
PkResolved(dbmapping, coll) ==
    \/ dbmapping[coll].pk \in FieldsOf(dbmapping[coll])
    \/ LinkedFromOther(dbmapping, coll)

\* C6: validate_mapping returns without error for every schema-conformant
\* config in which every collection's pk is resolved and every array or
\* array-of-scalars field passes the checks 3a-3d.
C6_SucceedsOnSoundConfig ==
    (/\ result.op = "validate_mapping"
     /\ SchemaValid(mappings)
     /\ \A db \in DOMAIN mappings : \A coll \in DOMAIN mappings[db] :
           /\ PkResolved(mappings[db], coll)
           /\ \A f \in ArrayFieldsOf(mappings[db][coll]) :
                  ArrayFieldSound(mappings[db], coll, f)) =>
        result.exc = "none"

\* What validate_mapping ends with when only the real field entries count:
\* InvalidConfiguration when the schema, a primary key or an array field is
\* unsound, a normal return otherwise.
ValidationOverFields(config) ==
    IF /\ SchemaValid(config)
       /\ \A db \in DOMAIN config : \A coll \in DOMAIN config[db] :
             /\ PkResolved(config[db], coll)
             /\ \A f \in ArrayFieldsOf(config[db][coll]) :
                    ArrayFieldSound(config[db], coll, f)
    THEN "none"
    ELSE "InvalidConfiguration"

\* C10: the pk entry of a collection mapping is never treated as a field
\* mapping: whatever the pk string is, is_id_autogenerated,
\* get_scalar_array_fields, get_transformed_document and validate_mapping end
\* without an unrelated error and with the result that iterating only the real
\* field entries gives.
C10_PkEntryIsNoField ==
    /\ (result.op = "is_id_autogenerated" /\ IsMappedNs(result.ns)) =>
          /\ result.exc = "none"
          /\ result.val = ~PkIsDestOfField(MappingOf(result.ns))
    /\ (result.op = "get_scalar_array_fields" /\ IsMappedNs(result.ns)) =>
          /\ result.exc = "none"
          /\ {result.val[i] : i \in DOMAIN result.val} =
                {f \in FieldsOf(MappingOf(result.ns)) :
                    MappingOf(result.ns).fields[f].type = ARRAY_OF_SCALARS_TYPE}
    /\ (result.op = "get_transformed_document" /\ IsMappedNs(result.ns)) =>
          \E mf \in MappedFields(MappingOf(result.ns)) :
              \E out \in TransformAll(mf, mapped_document) :
                  result.exc = out.exc /\ result.val = out.val
    /\ result.op = "validate_mapping" => result.exc = ValidationOverFields(mappings)

----------------------------------------------------------------------------
(* Properties of the lookup API *)

Accessors ==
    {"get_primary_key", "get_mapped_field", "is_mapped", "is_id_autogenerated",
     "get_scalar_array_fields"}

\* The accessor was asked for a namespace that has no collection mapping, or
\* for a field name that is not a key of the collection mapping.
AskedForAbsent ==
    /\ result.op \in Accessors
    /\ \/ ~IsMappedNs(result.ns)
       \/ /\ result.op \in {"get_mapped_field", "is_mapped"}
          /\ result.field # <<>>
          /\ result.field[1] \notin Keys(MappingOf(result.ns))

\* C7 as stated: every accessor fails with a 'not mapped' condition when the
\* namespace or the field is absent (for is_mapped, the answer False is that
\* condition); none returns a default value.
C7_EveryAccessorFails ==
    AskedForAbsent =>
        IF result.op = "is_mapped"
        THEN result.exc # "none" \/ result.val = FALSE
        ELSE result.exc # "none"

\* C7 as amended: for an absent namespace or field, get_primary_key,
\* get_mapped_field and is_id_autogenerated fail with KeyError, is_mapped
\* answers False, and get_scalar_array_fields returns the empty list.
C7_AbsentNamespace ==
    AskedForAbsent =>
        CASE result.op \in {"get_primary_key", "get_mapped_field", "is_id_autogenerated"} ->
                result.exc = "KeyError"
          [] result.op = "is_mapped" ->
                result.exc = "none" /\ result.val = FALSE
          [] result.op = "get_scalar_array_fields" ->
                result.exc = "none" /\ result.val = <<>>

\* get_scalar_array_fields has answered for a namespace that is not mapped
\* while the config maps another collection.
C7_AbsentNamespaceReached ==
    /\ pc = "done"
    /\ result.op = "get_scalar_array_fields"
    /\ AskedForAbsent
    /\ result.val = <<>>
    /\ IsMappedNs("db.A")

====
